---- MODULE Spec2Model ----
(***************************************************************************)
(* Model of bot/slack/slack.go: the Slack bot of keel.  Start resolves the *)
(* bot identity from the workspace user list and launches startInternal,   *)
(* the loop that consumes the RTM event stream; handleMessage filters,     *)
(* classifies and dispatches every message event to the approvals queue,   *)
(* the command queue or a redirect reply.                                  *)
(*                                                                         *)
(* Go strings are modelled as tuples of one-character strings, so that     *)
(* ToLower, Trim, HasPrefix, Replace and TrimPrefix are computed character *)
(* by character, as the standard library computes them.                    *)
(***************************************************************************)
EXTENDS Integers, Sequences, FiniteSets, TLC

\* Bounds of the model.
MaxEvents == 2        \* events the transport delivers in one behaviour
MaxUsers == 3         \* length of the workspace user list

---------------------------------------------------------------------------
\* The strings package.

UpperCase == <<"A","B","C","D","E","F","G","H","I","J","K","L","M",
               "N","O","P","Q","R","S","T","U","V","W","X","Y","Z">>
LowerCase == <<"a","b","c","d","e","f","g","h","i","j","k","l","m",
               "n","o","p","q","r","s","t","u","v","w","x","y","z">>

LowerChar(c) ==
    IF \E i \in DOMAIN UpperCase : UpperCase[i] = c
    THEN LowerCase[CHOOSE i \in DOMAIN UpperCase : UpperCase[i] = c]
    ELSE c

ToLower(s) == [i \in 1..Len(s) |-> LowerChar(s[i])]

HasPrefix(s, p) == Len(p) <= Len(s) /\ SubSeq(s, 1, Len(p)) = p

TrimPrefix(s, p) == IF HasPrefix(s, p) THEN SubSeq(s, Len(p) + 1, Len(s)) ELSE s

RECURSIVE TrimLeft(_, _)
TrimLeft(s, cutset) ==
    IF s # <<>> /\ Head(s) \in cutset THEN TrimLeft(Tail(s), cutset) ELSE s

RECURSIVE TrimRight(_, _)
TrimRight(s, cutset) ==
    IF s # <<>> /\ s[Len(s)] \in cutset
    THEN TrimRight(SubSeq(s, 1, Len(s) - 1), cutset)
    ELSE s

Trim(s, cutset) == TrimRight(TrimLeft(s, cutset), cutset)

\* strings.Index: the position of the first occurrence of sub in s, 0 if none.
Index(s, sub) ==
    LET at == {i \in 1..(Len(s) - Len(sub) + 1) : SubSeq(s, i, i + Len(sub) - 1) = sub}
    IN  IF at = {} THEN 0 ELSE CHOOSE i \in at : \A j \in at : i <= j

\* strings.Contains
Contains(s, sub) == Index(s, sub) # 0

\* strings.Replace(s, old, new, 1): the first occurrence only.
ReplaceFirst(s, old, new) ==
    LET i == Index(s, old)
    IN  IF i = 0 THEN s
        ELSE SubSeq(s, 1, i - 1) \o new \o SubSeq(s, i + Len(old), Len(s))

---------------------------------------------------------------------------
\* String literals of the source and of the inputs.

DefaultName == <<"k","e","e","l">>
DefaultApprovalsChannel == <<"g","e","n","e","r","a","l">>
MentionOpen == <<"<","@">>
MentionClose == <<">">>
RedirectNotice == <<"p","l","e","a","s","e"," ","u","s","e"," ",
                    "a","p","p","r","o","v","a","l","s"," ",
                    "c","h","a","n","n","e","l"," ","'">>
Quote == <<"'">>
\* "grave" stands for the grave accent, which a TLA+ string cannot hold.
SnippetFence == <<"grave","grave","grave">>
SourceName == "slack"

---------------------------------------------------------------------------
\* Inputs: the environment, the workspace user list, the inbound events.

\* Values of the KEEL bot name variable (constants.EnvSlackBotName); "" = unset.
EnvBotNames == {<<>>, <<"K","e","e","l">>}
\* Values of the approvals channel variable; "" = unset.
EnvApprovalsChannels == {<<>>, <<"#","o","p","s">>}

\* Names a workspace user may have.
UserNames == {<<"k","e","e","l">>, <<"K","e","e","l">>}

\* The user at position i of the list has the workspace-unique ID "U<i>".
UserID(i) == <<"U", ToString(i)>>

UserLists ==
    UNION {[1..n -> [Name : UserNames, IsBot : BOOLEAN]] : n \in 0..MaxUsers}

WithIDs(l) ==
    [i \in 1..Len(l) |-> [ID |-> UserID(i), Name |-> l[i].Name, IsBot |-> l[i].IsBot]]

\* Names a channel lookup may return.
ChannelNames == {<<"g","e","n","e","r","a","l">>, <<"o","p","s">>}

\* Channel IDs of inbound events: a public channel and a direct-message one.
ChannelIDs == {<<"C","1">>, <<"D","1">>}

\* Texts of inbound messages: an addressing part followed by a body.
TextHeads ==
    { <<>>,
      <<"<","@","U","1",">"," ">>,
      <<"<","@","U","2",">",":">>,
      <<"k","e","e","l"," ">>,
      <<"K","e","e","l"," ">>,
      <<"h","e","y"," ">> }
TextBodies ==
    { <<"s","t","a","t","u","s">>,
      <<"G","o"," ","\n">> }
Texts == {h \o b : h \in TextHeads, b \in TextBodies}

\* slack.MessageEvent: the fields handleMessage reads.
MessageEvents ==
    [type : {"message"}, BotID : {"", "B1"}, User : {"", "U9"},
     SubType : {"", "bot_message"}, Channel : ChannelIDs, Text : Texts]

\* The other event types of the RTM stream carry nothing the loop reads.
OtherTypes == {"hello", "connected", "presence_change", "rtm_error", "invalid_auth", "other"}
OtherEvents ==
    [type : OtherTypes, BotID : {""}, User : {""},
     SubType : {""}, Channel : {<<>>}, Text : {<<>>}]

IncomingEvents == MessageEvents \cup OtherEvents

\* Answers of the vote parser.
Decisions == {"none", "approved", "rejected"}

\* Results of GetChannelInfo and GetConversationInfo.
NotCalled == [called |-> FALSE, err |-> FALSE, Name |-> <<>>]
LookupFailed == [called |-> TRUE, err |-> TRUE, Name |-> <<>>]
LookupResults ==
    {LookupFailed} \cup {[called |-> TRUE, err |-> FALSE, Name |-> n] : n \in ChannelNames}

---------------------------------------------------------------------------
\* State.

VARIABLES
    name,               \* b.name
    approvalsChannel,   \* b.approvalsChannel
    users,              \* Start's local: the list slackClient.GetUsers returned
    id,                 \* b.id
    msgPrefix,          \* b.msgPrefix
    startRet,           \* Start: "none" (not called), "running", or what it
                        \* returned: "nil", "lookup_err", "not_found"
    cancelled,          \* b.ctx is done
    pc,                 \* startInternal: "off", "select", "sendApproval", "sendCommand", "done"
    loopRet,            \* startInternal's return value: "none", "nil", "err"
    nEvents,            \* events received from slackRTM.IncomingEvents
    cur,                \* the event last received and how handleMessage classified it
    out,                \* the output handleMessage produced for cur
    approvalsRespCh,    \* entries put on b.approvalsRespCh, by event number
    botMessagesChannel, \* entries put on b.botMessagesChannel, by event number
    rtmOutgoing,        \* messages sent by slackRTM.SendMessage, by event number
    uploads             \* files sent by slackClient.UploadFile, by event number

vars == <<name, approvalsChannel, users, id, msgPrefix, startRet, cancelled, pc,
          loopRet, nEvents, cur, out, approvalsRespCh, botMessagesChannel,
          rtmOutgoing, uploads>>

---------------------------------------------------------------------------
\* Configure: the name and the approvals channel from the environment.

ConfigureName(env) == IF env # <<>> THEN env ELSE DefaultName

ConfigureApprovalsChannel(env) ==
    IF env # <<>> THEN TrimPrefix(env, <<"#">>) ELSE DefaultApprovalsChannel

---------------------------------------------------------------------------
\* Start: the identity of the bot.

\* The loop over the user list: every user named b.name and flagged as a bot
\* assigns b.id; the loop has no break.
RECURSIVE ScanUsers(_, _, _)
ScanUsers(usrs, nm, found) ==
    IF usrs = <<>> THEN found
    ELSE ScanUsers(Tail(usrs), nm,
                   IF Head(usrs).Name = nm /\ Head(usrs).IsBot
                   THEN Head(usrs).ID
                   ELSE found)

\* The scan with a break at the first match.
RECURSIVE ScanUsersFirst(_, _, _)
ScanUsersFirst(usrs, nm, found) ==
    IF usrs = <<>> THEN found
    ELSE IF Head(usrs).Name = nm /\ Head(usrs).IsBot THEN Head(usrs).ID
    ELSE ScanUsersFirst(Tail(usrs), nm, found)
FindBotFirst(usrs, nm, id0) == ScanUsersFirst(usrs, nm, id0)

FindBot(usrs, nm, id0) == ScanUsers(usrs, nm, id0)

MentionPrefix(botID) == ToLower(MentionOpen \o botID \o MentionClose)

\* The end of Start once the list is scanned: the error or the mention prefix,
\* and whether startInternal is launched.
\* startInternal launched before the identity is checked.
StartOutcomeLaunchFirst(botID) ==
    IF botID = <<>>
    THEN [ret |-> "not_found", msgPrefix |-> <<>>, loop |-> TRUE]
    ELSE [ret |-> "nil", msgPrefix |-> MentionPrefix(botID), loop |-> TRUE]

StartOutcome(botID) ==
    IF botID = <<>>
    THEN [ret |-> "not_found", msgPrefix |-> <<>>, loop |-> FALSE]
    ELSE [ret |-> "nil", msgPrefix |-> MentionPrefix(botID), loop |-> TRUE]

---------------------------------------------------------------------------
\* handleMessage and what it calls.  The receiver b of a method is the record
\* of the Bot fields the method reads.

\* The filter without its subtype test.
isNoiseNoSubType(ev) == ev.BotID # "" \/ ev.User = ""

isNoise(ev) == ev.BotID # "" \/ ev.User = "" \/ ev.SubType = "bot_message"

Normalize(text) == Trim(ToLower(text), {" ", "\n", "\r"})

\* The filter without the direct-message rule.
isBotMessageNoDM(b, channel, eventText) ==
    \E p \in {b.msgPrefix, b.name} : HasPrefix(eventText, p)

isBotMessage(b, channel, eventText) ==
    \/ \E p \in {b.msgPrefix, b.name} : HasPrefix(eventText, p)
    \/ HasPrefix(channel, <<"D">>)

\* trimBot taking every occurrence of the mention.
RECURSIVE ReplaceEvery(_, _, _)
ReplaceEvery(s, old, new) ==
    IF Index(s, old) = 0 THEN s
    ELSE LET i == Index(s, old)
         IN  SubSeq(s, 1, i - 1) \o new
                \o ReplaceEvery(SubSeq(s, i + Len(old), Len(s)), old, new)
trimBotEvery(b, msg) ==
    Trim(TrimPrefix(ReplaceEvery(msg, ToLower(b.msgPrefix), <<>>), b.name),
         {" ", ":", "\n"})

trimBot(b, msg) ==
    Trim(TrimPrefix(ReplaceFirst(msg, ToLower(b.msgPrefix), <<>>), b.name),
         {" ", ":", "\n"})

\* bot.IsApproval: the parser's answer is an input; on a vote it returns the
\* response built from the user and the text it was given.
IsApproval(user, text, decision) ==
    [ok |-> decision # "none",
     approval |-> [User |-> user, Status |-> decision, Text |-> text]]

\* The classifier failing open when both lookups fail.
isApprovalsChannelFailOpen(b, pub, priv) ==
    IF pub.err
    THEN IF priv.err THEN TRUE
         ELSE IF priv.Name = b.approvalsChannel THEN TRUE ELSE FALSE
    ELSE IF pub.Name = b.approvalsChannel THEN TRUE ELSE FALSE

\* The classifier remembering that a vote was accepted before.
isApprovalsChannelSticky(b, pub, priv) ==
    \/ approvalsRespCh # <<>>
    \/ IF pub.err
       THEN IF priv.err THEN FALSE
            ELSE IF priv.Name = b.approvalsChannel THEN TRUE ELSE FALSE
       ELSE IF pub.Name = b.approvalsChannel THEN TRUE ELSE FALSE

isApprovalsChannel(b, pub, priv) ==
    IF pub.err
    THEN IF priv.err THEN FALSE
         ELSE IF priv.Name = b.approvalsChannel THEN TRUE ELSE FALSE
    ELSE IF pub.Name = b.approvalsChannel THEN TRUE ELSE FALSE

\* The executions of isApprovalsChannel: the conversation lookup is made only
\* when the channel lookup failed.
isApprovalsChannelRuns(b) ==
    {[pub |-> pq[1], priv |-> pq[2], result |-> isApprovalsChannel(b, pq[1], pq[2])] :
        pq \in {x \in LookupResults \X (LookupResults \cup {NotCalled}) :
                    x[2].called = x[1].err}}
NoRun == [pub |-> NotCalled, priv |-> NotCalled, result |-> FALSE]

\* The lookups made before the parser's answer is looked at.
LookupsEager(b, decision) == isApprovalsChannelRuns(b)

\* `ok && b.isApprovalsChannel(event)`: the lookups run only when the parser
\* recognised a vote.
Lookups(b, decision) ==
    IF decision # "none" THEN isApprovalsChannelRuns(b) ELSE {NoRun}

formatAsSnippet(response) == SnippetFence \o response \o SnippetFence

SnippetLimit == 3000

NoOut ==
    [kind |-> "none", User |-> "", Text |-> <<>>, Channel |-> <<>>,
     Name |-> "", Status |-> ""]

\* Respond with the limit included in the inline path.
RespondInclusive(text, channel) ==
    IF Len(text) <= SnippetLimit
    THEN [NoOut EXCEPT !.kind = "message", !.Text = formatAsSnippet(text),
                       !.Channel = channel]
    ELSE [NoOut EXCEPT !.kind = "upload", !.Text = text, !.Channel = channel,
                       !.Name = "keel response"]

\* Respond: an RTM message below the limit, a file upload from the limit on.
Respond(text, channel) ==
    IF Len(text) < SnippetLimit
    THEN [NoOut EXCEPT !.kind = "message", !.Text = formatAsSnippet(text),
                       !.Channel = channel]
    ELSE [NoOut EXCEPT !.kind = "upload", !.Text = text, !.Channel = channel,
                       !.Name = "keel response"]

RedirectText(b) == RedirectNotice \o b.approvalsChannel \o Quote

ApprovalOut(approval) ==
    [NoOut EXCEPT !.kind = "approval", !.User = approval.User,
                  !.Text = approval.Text, !.Status = approval.Status]

\* The BotMessage without its Name.
BotMessageUnnamed(eventText, user, channel) ==
    [NoOut EXCEPT !.kind = "command", !.Text = eventText, !.User = user,
                  !.Channel = channel]

BotMessage(eventText, user, channel) ==
    [NoOut EXCEPT !.kind = "command", !.Text = eventText, !.User = user,
                  !.Channel = channel, !.Name = SourceName]

\* The dispatch without the return after the redirect notice: a vote from
\* another channel falls through to the command queue.
DispatchFallThrough(ok, inApprovals) ==
    IF ok /\ inApprovals THEN "approval" ELSE "command"

\* The branch handleMessage takes once the text is stripped.
Dispatch(ok, inApprovals) ==
    IF ok /\ inApprovals THEN "approval"
    ELSE IF ok THEN "redirect"
    ELSE "command"

NoEvent ==
    [seq |-> 0, type |-> "none", BotID |-> "", User |-> "", SubType |-> "",
     Channel |-> <<>>, Text |-> <<>>, afterCancel |-> FALSE, eventText |-> <<>>,
     decision |-> "none", pub |-> NotCalled, priv |-> NotCalled,
     inApprovals |-> FALSE, outcome |-> "none"]

\* The two filters: "noise", "unaddressed", or "addressed" with the stripped text.
Filter(b, ev) ==
    IF isNoise(ev) THEN [stage |-> "noise", eventText |-> <<>>]
    ELSE LET eventText == Normalize(ev.Text)
         IN  IF ~isBotMessage(b, ev.Channel, eventText)
             THEN [stage |-> "unaddressed", eventText |-> <<>>]
             ELSE [stage |-> "addressed", eventText |-> trimBot(b, eventText)]

\* Filter tabulated over the identities Start can leave in the Bot and over
\* the message events, so that it is computed once for each.
Identities ==
    [name : {ConfigureName(e) : e \in EnvBotNames},
     msgPrefix : {MentionPrefix(UserID(i)) : i \in 1..MaxUsers}]
FilterTable == [x \in Identities \X MessageEvents |-> Filter(x[1], x[2])]
Filtered(b, ev) == FilterTable[<<[name |-> b.name, msgPrefix |-> b.msgPrefix], ev>>]

\* handleMessage up to its return or its channel send: the classification of
\* the event and the output it produces.
handleMessage(b, ev, decision, run) ==
    LET f == Filtered(b, ev)
    IN  IF f.stage # "addressed"
        THEN [outcome |-> f.stage, eventText |-> <<>>, decision |-> "none",
              run |-> NoRun, out |-> NoOut]
        ELSE LET res == IsApproval(ev.User, f.eventText, decision)
                 route == Dispatch(res.ok, run.result)
             IN  [outcome |-> route, eventText |-> f.eventText,
                  decision |-> decision, run |-> run,
                  out |-> CASE route = "approval" -> ApprovalOut(res.approval)
                            [] route = "redirect" -> Respond(RedirectText(b), ev.Channel)
                            [] OTHER -> BotMessage(f.eventText, ev.User, ev.Channel)]

\* handleMessage without the return after Respond: the redirected vote goes on
\* to the command queue.
AfterDispatchNoReturn(kind) ==
    CASE kind = "approval" -> "sendApproval"
      [] kind \in {"command", "message", "upload"} -> "sendCommand"
      [] OTHER -> "returned"

\* A send that gives up when the queue cannot take the entry.
AfterDispatchDrop(kind) == "returned"

\* Where handleMessage stands once the output is made: blocked in the send to
\* one of the two queues, or returned.
AfterDispatch(kind) ==
    CASE kind = "approval" -> "sendApproval"
      [] kind = "command" -> "sendCommand"
      [] OTHER -> "returned"

\* A queue that hands over its newest entry first.
EnqueueFront(q, n) == <<n>> \o q

\* A completed channel send: the entry is behind those sent before it.
Enqueue(q, n) == Append(q, n)

\* A loop that also returns on a transport error.
LoopReturnsOnError(type) == type \in {"invalid_auth", "rtm_error"}

\* The event types on which startInternal returns.
LoopReturnsOn(type) == type = "invalid_auth"

---------------------------------------------------------------------------
\* Actions.

\* The Bot as the methods see it.
Bot == [name |-> name, msgPrefix |-> msgPrefix, approvalsChannel |-> approvalsChannel]

Init ==
    /\ name \in {ConfigureName(e) : e \in EnvBotNames}
    /\ approvalsChannel \in {ConfigureApprovalsChannel(e) : e \in EnvApprovalsChannels}
    /\ users = <<>>
    /\ id = <<>>
    /\ msgPrefix = <<>>
    /\ startRet = "none"
    /\ cancelled = FALSE
    /\ pc = "off"
    /\ loopRet = "none"
    /\ nEvents = 0
    /\ cur = NoEvent
    /\ out = NoOut
    /\ approvalsRespCh = <<>>
    /\ botMessagesChannel = <<>>
    /\ rtmOutgoing = <<>>
    /\ uploads = <<>>

\* Start(ctx): GetUsers fails and Start returns its error, or the list is
\* scanned and b.id assigned.
StartScan ==
    /\ startRet = "none"
    /\ \/ /\ startRet' = "lookup_err"
          /\ UNCHANGED <<users, id>>
       \/ \E l \in UserLists :
            /\ users' = WithIDs(l)
            /\ id' = FindBot(WithIDs(l), name, id)
            /\ startRet' = "running"
    /\ UNCHANGED <<name, approvalsChannel, msgPrefix, cancelled, pc, loopRet, nEvents,
                   cur, out, approvalsRespCh, botMessagesChannel, rtmOutgoing, uploads>>

\* Start after the scan: the error, or the prefix, the launch of startInternal
\* and nil.  The list is local to Start.
StartReturn ==
    /\ startRet = "running"
    /\ LET r == StartOutcome(id)
       IN  /\ startRet' = r.ret
           /\ msgPrefix' = r.msgPrefix
           /\ pc' = IF r.loop THEN "select" ELSE pc
    /\ users' = <<>>
    /\ UNCHANGED <<name, approvalsChannel, id, cancelled, loopRet, nEvents, cur, out,
                   approvalsRespCh, botMessagesChannel, rtmOutgoing, uploads>>

\* The governing context is cancelled.
Cancel ==
    /\ ~cancelled
    /\ cancelled' = TRUE
    /\ UNCHANGED <<name, approvalsChannel, users, id, msgPrefix, startRet, pc,
                   loopRet, nEvents, cur, out, approvalsRespCh, botMessagesChannel,
                   rtmOutgoing, uploads>>

\* select: case <-b.ctx.Done()
LoopCtxDone ==
    /\ pc = "select"
    /\ cancelled
    /\ pc' = "done"
    /\ loopRet' = "nil"
    /\ UNCHANGED <<name, approvalsChannel, users, id, msgPrefix, startRet, cancelled,
                   nEvents, cur, out, approvalsRespCh, botMessagesChannel,
                   rtmOutgoing, uploads>>

\* select: case msg := <-b.slackRTM.IncomingEvents, a message event.  The
\* select takes this case whenever an event is ready, cancelled or not.
\* handleMessage runs to its return or to its channel send.
LoopRecvMessage ==
    /\ pc = "select"
    /\ nEvents < MaxEvents
    \* the parser and the lookups answer only when they are called
    /\ \E ev \in MessageEvents :
       \E decision \in (IF Filtered(Bot, ev).stage = "addressed" THEN Decisions
                                                              ELSE {"none"}) :
       \E run \in Lookups(Bot, decision) :
          LET h == handleMessage(Bot, ev, decision, run)
              n == nEvents + 1
          IN  /\ nEvents' = n
              /\ cur' = [seq |-> n, type |-> ev.type, BotID |-> ev.BotID,
                         User |-> ev.User, SubType |-> ev.SubType,
                         Channel |-> ev.Channel, Text |-> ev.Text,
                         afterCancel |-> cancelled, eventText |-> h.eventText,
                         decision |-> h.decision, pub |-> h.run.pub,
                         priv |-> h.run.priv, inApprovals |-> h.run.result,
                         outcome |-> h.outcome]
              /\ out' = h.out
              /\ pc' = AfterDispatch(h.out.kind)
              /\ rtmOutgoing' = IF h.out.kind = "message"
                                THEN Append(rtmOutgoing, n) ELSE rtmOutgoing
              /\ uploads' = IF h.out.kind = "upload"
                            THEN Append(uploads, n) ELSE uploads
    /\ UNCHANGED <<name, approvalsChannel, users, id, msgPrefix, startRet, cancelled,
                   loopRet, approvalsRespCh, botMessagesChannel>>

\* select: an event of another type; only the invalid-auth event returns.
LoopRecvOther ==
    /\ pc = "select"
    /\ nEvents < MaxEvents
    /\ \E ev \in OtherEvents :
          /\ cur' = [NoEvent EXCEPT !.seq = nEvents + 1, !.type = ev.type,
                                    !.afterCancel = cancelled]
          /\ IF LoopReturnsOn(ev.type)
             THEN pc' = "done" /\ loopRet' = "err"
             ELSE pc' = "returned" /\ loopRet' = loopRet
    /\ nEvents' = nEvents + 1
    /\ out' = NoOut
    /\ UNCHANGED <<name, approvalsChannel, users, id, msgPrefix, startRet, cancelled,
                   approvalsRespCh, botMessagesChannel, rtmOutgoing, uploads>>

\* b.approvalsRespCh <- approval completes (the consumer takes the entry) and
\* handleMessage returns.
SendApproval ==
    /\ pc = "sendApproval"
    /\ approvalsRespCh' = Enqueue(approvalsRespCh, cur.seq)
    /\ pc' = "returned"
    /\ UNCHANGED <<name, approvalsChannel, users, id, msgPrefix, startRet, cancelled,
                   loopRet, nEvents, cur, out, botMessagesChannel, rtmOutgoing,
                   uploads>>

\* b.botMessagesChannel <- &bot.BotMessage{...} completes and handleMessage
\* returns.
SendCommand ==
    /\ pc = "sendCommand"
    /\ botMessagesChannel' = Enqueue(botMessagesChannel, cur.seq)
    /\ pc' = "returned"
    /\ UNCHANGED <<name, approvalsChannel, users, id, msgPrefix, startRet, cancelled,
                   loopRet, nEvents, cur, out, approvalsRespCh, rtmOutgoing,
                   uploads>>

\* The for loop comes back to the select; the event and what was made of it
\* are gone.
LoopIterate ==
    /\ pc = "returned"
    /\ pc' = "select"
    /\ cur' = NoEvent
    /\ out' = NoOut
    /\ UNCHANGED <<name, approvalsChannel, users, id, msgPrefix, startRet, cancelled,
                   loopRet, nEvents, approvalsRespCh, botMessagesChannel,
                   rtmOutgoing, uploads>>

Next ==
    \/ StartScan
    \/ StartReturn
    \/ Cancel
    \/ LoopCtxDone
    \/ LoopRecvMessage
    \/ LoopRecvOther
    \/ SendApproval
    \/ SendCommand
    \/ LoopIterate

Spec == Init /\ [][Next]_vars

\* The loop's own steps are taken when they can be, and Go's select picks among
\* its ready cases at random, so a loop that reaches the select again and again
\* with the context done takes that case in the end.  Nothing makes the
\* consumers of the two queues receive.
FairSpec == Spec /\ WF_vars(LoopIterate) /\ SF_vars(LoopCtxDone)

\* The same loop with consumers that do receive from the two queues: a send
\* that is waiting completes.
ConsumerSpec ==
    Spec /\ WF_vars(LoopIterate) /\ WF_vars(SendApproval) /\ WF_vars(SendCommand)

---------------------------------------------------------------------------
\* Respond as the rest of keel calls it, on a Bot that Start has brought up.

MaxCalls == 2

\* Texts on both sides of the limit.
FillChars == {"a", "b", "\n"}
Fill(n, c) == [i \in 1..n |-> c]
RespondLengths == {0, 1, SnippetLimit - 1, SnippetLimit, SnippetLimit + 1}
RespondTexts == {Fill(n, c) : n \in RespondLengths, c \in FillChars}

RespondInit ==
    /\ name = DefaultName
    /\ approvalsChannel = DefaultApprovalsChannel
    /\ users = <<>>
    /\ id = UserID(1)
    /\ msgPrefix = MentionPrefix(UserID(1))
    /\ startRet = "nil"
    /\ cancelled = FALSE
    /\ pc = "select"
    /\ loopRet = "none"
    /\ nEvents = 0
    /\ cur = NoEvent
    /\ out = NoOut
    /\ approvalsRespCh = <<>>
    /\ botMessagesChannel = <<>>
    /\ rtmOutgoing = <<>>
    /\ uploads = <<>>

\* One call of Respond, numbered like an event: the message goes to the RTM
\* connection or the file to UploadFile, whose error is logged and nothing
\* else; Respond returns.
RespondCall ==
    /\ nEvents < MaxCalls
    /\ \E text \in RespondTexts, channel \in ChannelIDs, err \in BOOLEAN :
          LET o == Respond(text, channel)
              n == nEvents + 1
          IN  /\ o.kind = "message" => ~err
              /\ nEvents' = n
              /\ cur' = [NoEvent EXCEPT !.seq = n, !.type = "respond",
                                        !.Text = text, !.Channel = channel,
                                        !.outcome = IF o.kind = "message" THEN "sent"
                                                    ELSE IF err THEN "upload_failed"
                                                    ELSE "uploaded"]
              /\ out' = o
              /\ rtmOutgoing' = IF o.kind = "message"
                                THEN Append(rtmOutgoing, n) ELSE rtmOutgoing
              /\ uploads' = IF o.kind = "upload"
                            THEN Append(uploads, n) ELSE uploads
    /\ UNCHANGED <<name, approvalsChannel, users, id, msgPrefix, startRet, cancelled,
                   pc, loopRet, approvalsRespCh, botMessagesChannel>>

RespondNext == RespondCall

RespondSpec == RespondInit /\ [][RespondNext]_vars

---------------------------------------------------------------------------
\* trimBot on the normalized texts handleMessage can give it.

MaxPieces == 3

\* Texts are made of these pieces: the mention of the bot, whole and in two
\* halves, the default name, separators and a letter.
TextPieces ==
    {MentionOpen \o UserID(1) \o MentionClose, MentionOpen,
     UserID(1) \o MentionClose, DefaultName, <<" ">>, <<":">>, <<"x">>}
PieceSeqs == UNION {[1..k -> TextPieces] : k \in 0..MaxPieces}
RECURSIVE Flatten(_)
Flatten(ps) == IF ps = <<>> THEN <<>> ELSE Head(ps) \o Flatten(Tail(ps))
TrimTexts == {Normalize(Flatten(ps)) : ps \in PieceSeqs}

TrimInit ==
    /\ name \in {ConfigureName(e) : e \in EnvBotNames}
    /\ approvalsChannel = DefaultApprovalsChannel
    /\ users = <<>>
    /\ id = UserID(1)
    /\ msgPrefix = MentionPrefix(UserID(1))
    /\ startRet = "nil"
    /\ cancelled = FALSE
    /\ pc = "select"
    /\ loopRet = "none"
    /\ nEvents = 0
    /\ cur \in {[NoEvent EXCEPT !.type = "text", !.Text = t] : t \in TrimTexts}
    /\ out = NoOut
    /\ approvalsRespCh = <<>>
    /\ botMessagesChannel = <<>>
    /\ rtmOutgoing = <<>>
    /\ uploads = <<>>

\* eventText = b.trimBot(eventText) on the normalized text.
TrimCall ==
    /\ cur.type = "text"
    /\ cur' = [cur EXCEPT !.type = "trim", !.eventText = trimBot(Bot, cur.Text)]
    /\ UNCHANGED <<name, approvalsChannel, users, id, msgPrefix, startRet, cancelled,
                   pc, loopRet, nEvents, out, approvalsRespCh, botMessagesChannel,
                   rtmOutgoing, uploads>>

TrimNext == TrimCall

TrimSpec == TrimInit /\ [][TrimNext]_vars

---------------------------------------------------------------------------
\* Properties.

\* Entries of a log that the event numbered n produced.
Count(log, n) == Cardinality({i \in DOMAIN log : log[i] = n})
Replies(n) == Count(rtmOutgoing, n) + Count(uploads, n)

\* cur is a message event, and how the claims describe it.
CurMessage == cur.type = "message"
CurNoise == cur.BotID # "" \/ cur.User = "" \/ cur.SubType = "bot_message"
CurDirect == Len(cur.Channel) >= 1 /\ cur.Channel[1] = "D"
CurAddressed ==
    \/ HasPrefix(Normalize(cur.Text), msgPrefix)
    \/ HasPrefix(Normalize(cur.Text), name)
    \/ CurDirect
CurVote == cur.decision # "none"
NothingOut ==
    /\ out = NoOut
    /\ Count(approvalsRespCh, cur.seq) = 0
    /\ Count(botMessagesChannel, cur.seq) = 0
    /\ Replies(cur.seq) = 0

\* C1: a vote (an event that passed both filters and that the parser
\* recognised) received in the approvals channel puts exactly one approval on
\* the approvals queue, nothing on the command queue and no reply; a vote
\* received elsewhere puts nothing on either queue and gets exactly one reply,
\* to its channel, containing the approvals channel name.  A vote never goes to
\* the command queue.
C1_VoteRouting ==
    (CurMessage /\ CurVote) =>
        /\ pc # "sendCommand"
        /\ Count(botMessagesChannel, cur.seq) = 0
        /\ cur.inApprovals =>
              /\ pc \in {"sendApproval", "returned"}
              /\ out = ApprovalOut(IsApproval(cur.User, cur.eventText,
                                              cur.decision).approval)
              /\ Replies(cur.seq) = 0
              /\ Count(approvalsRespCh, cur.seq) = (IF pc = "returned" THEN 1 ELSE 0)
        /\ ~cur.inApprovals =>
              /\ pc = "returned"
              /\ Count(approvalsRespCh, cur.seq) = 0
              /\ Replies(cur.seq) = 1
              /\ out.kind \in {"message", "upload"}
              /\ out.Channel = cur.Channel
              /\ Contains(out.Text, approvalsChannel)
C1_Witness ==
    /\ CurMessage /\ CurVote /\ ~cur.inApprovals /\ pc = "returned"
    /\ ~cur.pub.err /\ cur.pub.Name # approvalsChannel
    /\ Replies(cur.seq) = 1

\* C2: an event that passed both filters and that the parser does not
\* recognise puts exactly one BotMessage on the command queue, with the
\* stripped text, the event's user and channel and the name "slack"; nothing
\* goes to the approvals queue and no reply is sent.
C2_CommandRouting ==
    (CurMessage /\ ~CurNoise /\ CurAddressed /\ ~CurVote) =>
        /\ pc \in {"sendCommand", "returned"}
        /\ out.kind = "command"
        /\ out.Text = trimBot(Bot, Normalize(cur.Text))
        /\ out.Text = cur.eventText
        /\ out.User = cur.User
        /\ out.Channel = cur.Channel
        /\ out.Name = "slack"
        /\ Count(botMessagesChannel, cur.seq) = (IF pc = "returned" THEN 1 ELSE 0)
        /\ Count(approvalsRespCh, cur.seq) = 0
        /\ Replies(cur.seq) = 0
C2_Witness ==
    /\ CurMessage /\ ~CurNoise /\ ~CurDirect /\ ~CurVote /\ pc = "returned"
    /\ Count(botMessagesChannel, cur.seq) = 1
    /\ out.Text # cur.Text

\* C3: an event with a bot ID, without a user or of subtype bot_message puts
\* nothing on either queue and gets no reply, whatever its text and channel;
\* handleMessage returns at once.
C3_NoiseDropped ==
    (CurMessage /\ CurNoise) => (pc = "returned" /\ NothingOut /\ ~CurVote)
C3_Witness ==
    /\ CurMessage /\ cur.SubType = "bot_message" /\ cur.BotID = "" /\ cur.User # ""
    /\ CurDirect
    /\ HasPrefix(Normalize(cur.Text), msgPrefix)
    /\ pc = "returned"

\* C4: an event that passed the noise filter goes on to classification if and
\* only if its normalized text starts with the mention prefix or with the
\* configured name, or its channel ID starts with "D"; otherwise it is dropped
\* with nothing on either queue and no reply.  A non-vote text in a
\* direct-message channel yields exactly one BotMessage.
C4_AddressedFilter ==
    (CurMessage /\ ~CurNoise) =>
        /\ CurAddressed <=> out.kind # "none"
        /\ ~CurAddressed => (pc = "returned" /\ NothingOut /\ ~CurVote)
        /\ (CurDirect /\ ~CurVote /\ pc = "returned") =>
              (out.kind = "command" /\ Count(botMessagesChannel, cur.seq) = 1)
C4_Witness ==
    /\ CurMessage /\ ~CurNoise /\ CurDirect /\ ~CurVote /\ pc = "returned"
    /\ ~HasPrefix(Normalize(cur.Text), msgPrefix)
    /\ ~HasPrefix(Normalize(cur.Text), name)
    /\ Count(botMessagesChannel, cur.seq) = 1

\* C5: for a vote, isApprovalsChannel is true if and only if the channel lookup
\* succeeds with the approvals channel name, or it fails and the conversation
\* lookup succeeds with that name; when both lookups fail the vote never
\* reaches the approvals queue.
C5_FailClosed ==
    (CurMessage /\ CurVote) =>
        /\ cur.pub.called
        /\ cur.priv.called <=> cur.pub.err
        /\ cur.inApprovals <=>
              \/ ~cur.pub.err /\ cur.pub.Name = approvalsChannel
              \/ cur.pub.err /\ cur.priv.called /\ ~cur.priv.err
                    /\ cur.priv.Name = approvalsChannel
        /\ cur.inApprovals <=> out.kind = "approval"
        /\ (cur.pub.err /\ cur.priv.err) =>
              (pc # "sendApproval" /\ Count(approvalsRespCh, cur.seq) = 0)
C5_Witness ==
    /\ CurMessage /\ CurVote /\ cur.pub.err /\ cur.priv.called /\ cur.priv.err
    /\ pc = "returned" /\ out.kind = "message"

\* The users of Start's list that carry the configured name and the bot flag.
NamedBots == SelectSeq(users, LAMBDA u : u.Name = name /\ u.IsBot)
NamedHumans == SelectSeq(users, LAMBDA u : u.Name = name /\ ~u.IsBot)

\* C6 as claimed: once the list is scanned, b.id is the ID of the first user
\* that carries the configured name and the bot flag.
C6_FirstMatchWins ==
    (startRet = "running" /\ NamedBots # <<>>) => id = NamedBots[1].ID

\* C6 amended: once the list is scanned, b.id is the ID of the last user that
\* carries the configured name and the bot flag, never that of a user with the
\* name and without the flag; the mention prefix is derived from b.id.
C6_LastMatchWins ==
    /\ (startRet = "running" /\ NamedBots # <<>>) =>
          /\ id = NamedBots[Len(NamedBots)].ID
          /\ \A i \in DOMAIN NamedHumans : id # NamedHumans[i].ID
    /\ startRet = "nil" =>
          (id # <<>> /\ msgPrefix = ToLower(<<"<", "@">> \o id \o <<">">>))
C6_Witness ==
    /\ startRet = "running"
    /\ Len(NamedBots) >= 2
    /\ NamedHumans # <<>>
    /\ id = NamedBots[Len(NamedBots)].ID

\* C7: when no user carries the configured name and the bot flag, or GetUsers
\* fails, Start returns an error and startInternal is never launched: no event
\* is received and nothing reaches a queue or is sent.
C7_NoLoop ==
    /\ pc = "off"
    /\ loopRet = "none"
    /\ nEvents = 0
    /\ cur = NoEvent
    /\ out = NoOut
    /\ approvalsRespCh = <<>>
    /\ botMessagesChannel = <<>>
    /\ rtmOutgoing = <<>>
    /\ uploads = <<>>
C7_StartAborts ==
    /\ [](startRet \in {"lookup_err", "not_found"} => C7_NoLoop)
    /\ [](pc # "off" => startRet = "nil")
    /\ [][(startRet = "running" /\ startRet' # "running") =>
            IF NamedBots = <<>>
            THEN startRet' = "not_found" /\ C7_NoLoop'
            ELSE startRet' = "nil"]_vars
    /\ [][(startRet = "none" /\ startRet' = "lookup_err") => C7_NoLoop']_vars
    /\ [][(startRet \in {"lookup_err", "not_found"}) => (startRet' = startRet)]_vars
C7_Witness ==
    /\ startRet = "not_found"
    /\ cancelled
    /\ pc = "off"

\* C8 as claimed: once the context is cancelled, a launched startInternal
\* terminates, whether or not the consumers of the two queues still receive.
C8_TerminatesOnCancel == (cancelled /\ pc # "off") ~> (pc = "done")

\* C9 as claimed: no handleMessage call begins after the cancellation.
C9_NoEventAfterCancel == CurMessage => ~cur.afterCancel

\* C10 as claimed: the loop ends only by the cancellation, never because of an
\* event.
C10_OnlyCancelStops ==
    pc = "done" => (cur = NoEvent /\ cancelled /\ loopRet = "nil")

\* C10 amended: the loop ends by the cancellation or on an invalid-auth event,
\* which makes it return an error; after an event of any other type, and after
\* any lookup failure in handleMessage, the loop is still running.
C10_StopsOnCancelOrInvalidAuth ==
    /\ pc = "done" =>
          \/ cur = NoEvent /\ cancelled /\ loopRet = "nil"
          \/ cur.type = "invalid_auth" /\ loopRet = "err"
    /\ cur.type \notin {"none", "invalid_auth"} =>
          /\ pc \in {"returned", "sendApproval", "sendCommand"}
          /\ loopRet = "none"
    /\ cur.type \in {"hello", "connected", "presence_change", "rtm_error", "other"} =>
          pc = "returned"
C10_Witness ==
    /\ pc = "done"
    /\ cur.type = "invalid_auth"
    /\ cur.seq = 2
    /\ ~cancelled
    /\ loopRet = "err"

\* The four outputs of the loop, as the logs of the event numbers they carry.
Logs == <<approvalsRespCh, botMessagesChannel, rtmOutgoing, uploads>>
Increasing(log) == \A i, j \in DOMAIN log : i < j => log[i] < log[j]
Entries(log) == {log[i] : i \in DOMAIN log}

\* C11: dispatch preserves the order of receipt.  Events are numbered as the
\* loop receives them; every output that is emitted belongs to the event
\* received last and is put behind all earlier entries, so the output of an
\* earlier event is never emitted after the output of a later one, and the
\* entries of each queue stand in the order in which their events were received
\* (for every pair of events, those of one sender in one channel included).
C11_OrderPreserved ==
    /\ [](\A k \in 1..4 : Increasing(Logs[k]))
    /\ [][\A k \in 1..4 :
             \/ Logs[k]' = Logs[k]
             \/ /\ Logs[k]' = Append(Logs[k], nEvents')
                /\ \A m \in 1..4 : \A e \in Entries(Logs[m]) : e < nEvents']_vars
C11_Witness ==
    /\ botMessagesChannel = <<1, 2>>
    /\ cur.seq = 2
    /\ out.kind = "command"

\* C12: Respond takes exactly one of its two paths.  A text shorter than 3000
\* gives one RTM message to the channel, the text between two code fences, and
\* no upload; a text of 3000 or more gives one upload named "keel response" to
\* the channel, with the text as it is, and no RTM message.  Whether the upload
\* fails or not, Respond returns and the loop is still at its select.
C12_RespondOnePath ==
    cur.type = "respond" =>
        /\ out.Channel = cur.Channel
        /\ pc = "select" /\ loopRet = "none"
        /\ IF Len(cur.Text) < 3000
           THEN /\ out.kind = "message"
                /\ out.Text = <<"grave", "grave", "grave">> \o cur.Text
                                   \o <<"grave", "grave", "grave">>
                /\ Count(rtmOutgoing, cur.seq) = 1
                /\ Count(uploads, cur.seq) = 0
                /\ cur.outcome = "sent"
           ELSE /\ out.kind = "upload"
                /\ out.Name = "keel response"
                /\ out.Text = cur.Text
                /\ Count(uploads, cur.seq) = 1
                /\ Count(rtmOutgoing, cur.seq) = 0
                /\ cur.outcome \in {"uploaded", "upload_failed"}
C12_Witness ==
    /\ cur.type = "respond"
    /\ Len(cur.Text) = 3000
    /\ cur.outcome = "upload_failed"
    /\ uploads = <<1, 2>>

\* The reference procedures of the trimBot claims, written on positions.
Separators == {" ", ":", "\n"}
StartsWith(t, p) == Len(p) <= Len(t) /\ \A k \in 1..Len(p) : t[k] = p[k]
DropFirst(t, n) == [k \in 1..(Len(t) - n) |-> t[k + n]]
OccursAt(t, p, i) ==
    /\ i >= 1
    /\ i + Len(p) - 1 <= Len(t)
    /\ \A k \in 1..Len(p) : t[i + k - 1] = p[k]
Occurrences(t, p) == {i \in 1..Len(t) : OccursAt(t, p, i)}
Least(S) == CHOOSE i \in S : \A j \in S : i <= j
Greatest(S) == CHOOSE i \in S : \A j \in S : j <= i
CutAt(t, i, n) == [k \in 1..(Len(t) - n) |-> IF k < i THEN t[k] ELSE t[k + n]]
Strip(t, cutset) ==
    LET keep == {k \in 1..Len(t) : t[k] \notin cutset}
    IN  IF keep = {} THEN <<>>
        ELSE [k \in 1..(Greatest(keep) - Least(keep) + 1) |-> t[Least(keep) + k - 1]]
CurTrim == cur.type = "trim"

\* The procedure of C13: the mention only from the start, the name only when
\* no mention was taken, then the separators.
StartOnlyReference(t) ==
    Strip(IF StartsWith(t, msgPrefix) THEN DropFirst(t, Len(msgPrefix))
          ELSE IF StartsWith(t, name) THEN DropFirst(t, Len(name))
          ELSE t,
          Separators)

\* C13 as stated: for every normalized text, trimBot gives what the procedure
\* gives that removes the mention prefix only at the start of the text, removes
\* the plain name from the start only when no mention prefix was removed, and
\* then trims spaces, colons and newlines from both ends.
C13_StartOnly == CurTrim => cur.eventText = StartOnlyReference(cur.Text)

\* C14: for a normalized text with two or more occurrences of the mention
\* prefix, the stripped text is a part of the text without its first
\* occurrence of the prefix (exactly one occurrence is taken out), and every
\* other occurrence stands in the stripped text at its place, so all of them
\* are still there in the same order.
C14_OneOccurrenceRemoved ==
    (CurTrim /\ Cardinality(Occurrences(cur.Text, msgPrefix)) >= 2) =>
        LET occ == Occurrences(cur.Text, msgPrefix)
            first == Least(occ)
            rest == CutAt(cur.Text, first, Len(msgPrefix))
            r == cur.eventText
        IN  \E off \in 0..Len(rest) :
               /\ off + Len(r) <= Len(rest)
               /\ \A k \in 1..Len(r) : r[k] = rest[off + k]
               /\ \A j \in occ \ {first} :
                     OccursAt(r, msgPrefix, j - Len(msgPrefix) - off)
C14_Witness ==
    /\ CurTrim
    /\ Cardinality(Occurrences(cur.Text, msgPrefix)) = 2
    /\ Cardinality(Occurrences(cur.eventText, msgPrefix)) = 1
    /\ Len(cur.eventText) > Len(msgPrefix)

Total ==
    Len(approvalsRespCh) + Len(botMessagesChannel) + Len(rtmOutgoing) + Len(uploads)
Effects(n) == Count(approvalsRespCh, n) + Count(botMessagesChannel, n) + Replies(n)

\* C15: no event is dispatched twice.  Every event has at most one effect among
\* an approvals-queue entry, a command-queue entry and a reply; an effect is
\* only ever added one at a time, for the message event being handled; so the
\* number of entries and replies never exceeds the number of events received,
\* nor the number of message events among them.
C15_NoDoubleDispatch ==
    /\ [](\A n \in 1..nEvents : Effects(n) <= 1)
    /\ [](Total <= nEvents)
    /\ [][Total' # Total =>
             /\ Total' = Total + 1
             /\ cur'.type = "message"
             /\ Count(approvalsRespCh', cur'.seq) + Count(botMessagesChannel', cur'.seq)
                    + Count(rtmOutgoing', cur'.seq) + Count(uploads', cur'.seq) = 1]_vars
C15_Witness ==
    /\ CurMessage /\ CurVote /\ ~cur.inApprovals
    /\ cur.seq = 2
    /\ Total = 2
    /\ Effects(1) = 1 /\ Replies(2) = 1

\* The outcome as a function of the event, the identity, the approvals channel
\* name, the parser's answer and the lookup results.
ExpectedInApprovals ==
    IF cur.pub.err THEN cur.priv.called /\ ~cur.priv.err /\ cur.priv.Name = approvalsChannel
    ELSE cur.pub.called /\ cur.pub.Name = approvalsChannel
ExpectedOutcome ==
    IF CurNoise THEN "noise"
    ELSE IF ~CurAddressed THEN "unaddressed"
    ELSE IF ~CurVote THEN "command"
    ELSE IF ExpectedInApprovals THEN "approval"
    ELSE "redirect"
ExpectedKinds ==
    CASE ExpectedOutcome = "approval" -> {"approval"}
      [] ExpectedOutcome = "redirect" -> {"message", "upload"}
      [] ExpectedOutcome = "command" -> {"command"}
      [] OTHER -> {"none"}

\* C16: the router is stateless across events.  Once Start has returned nil no
\* step changes id, name, msgPrefix or approvalsChannel, and the outcome of a
\* message event is the one its own fields, the identity, the approvals channel
\* name, the parser's answer and the lookup results give, whatever was handled
\* before it.
C16_Stateless ==
    /\ [](CurMessage => (cur.outcome = ExpectedOutcome /\ out.kind \in ExpectedKinds))
    /\ [][(startRet = "nil") =>
             (id' = id /\ name' = name /\ msgPrefix' = msgPrefix
                 /\ approvalsChannel' = approvalsChannel)]_vars
C16_Witness ==
    /\ CurMessage
    /\ cur.seq = 2
    /\ approvalsRespCh = <<1>>
    /\ cur.outcome = "redirect"
    /\ startRet = "nil"

\* C17: the channel lookups are made only for a vote.  An event dropped by the
\* noise filter or by the addressed filter, or handled as a command, has no
\* parser answer of a vote and no lookup, public or private, and its handling
\* goes on without one; a vote has the public lookup, and the private one
\* exactly when the public one failed.
C17_LookupsOnlyForVotes ==
    CurMessage =>
        /\ (CurNoise \/ ~CurAddressed) => ~CurVote
        /\ ~CurVote =>
              /\ ~cur.pub.called /\ ~cur.priv.called
              /\ cur.outcome \in {"noise", "unaddressed", "command"}
        /\ CurVote =>
              /\ cur.pub.called
              /\ cur.priv.called = cur.pub.err
C17_Witness ==
    /\ CurMessage /\ ~CurNoise /\ CurAddressed /\ ~CurVote
    /\ cur.outcome = "command"
    /\ pc = "sendCommand"
    /\ ~cur.pub.called /\ ~cur.priv.called

\* C18: a message of a human in a channel that is not a direct message, whose
\* text begins with the configured bot name, passes the addressed filter and
\* is classified on its text without that name, for every configured name.
C18_NameAddressing ==
    (CurMessage /\ ~CurNoise /\ ~CurDirect /\ StartsWith(cur.Text, name)) =>
        /\ cur.outcome \in {"approval", "redirect", "command"}
        /\ cur.eventText = Strip(DropFirst(Normalize(cur.Text), Len(name)), Separators)

\* C19: the full-queue policy is block, never drop.  A vote routed to the
\* approvals queue and a command are either waiting in their send or delivered
\* once; while the send waits no later event is received and the only way on
\* is the completed send; and with consumers that receive, every such vote and
\* every command is delivered, exactly once.
C19_BlockNeverDrop ==
    /\ [](CurMessage /\ out.kind = "approval" =>
             \/ pc = "sendApproval" /\ Count(approvalsRespCh, cur.seq) = 0
             \/ pc = "returned" /\ Count(approvalsRespCh, cur.seq) = 1)
    /\ [](CurMessage /\ out.kind = "command" =>
             \/ pc = "sendCommand" /\ Count(botMessagesChannel, cur.seq) = 0
             \/ pc = "returned" /\ Count(botMessagesChannel, cur.seq) = 1)
    /\ [][(pc \in {"sendApproval", "sendCommand"}) =>
             /\ nEvents' = nEvents
             /\ cur' = cur
             /\ pc' \in {pc, "returned"}
             /\ (pc' = "returned") => (Total' = Total + 1)]_vars
    /\ [](\A n \in 1..nEvents :
             Count(approvalsRespCh, n) <= 1 /\ Count(botMessagesChannel, n) <= 1)
    /\ \A n \in 1..MaxEvents :
          /\ (cur.seq = n /\ out.kind = "approval") ~> (Count(approvalsRespCh, n) = 1)
          /\ (cur.seq = n /\ out.kind = "command") ~> (Count(botMessagesChannel, n) = 1)
C19_Witness ==
    /\ pc = "returned"
    /\ cancelled
    /\ out.kind = "command"
    /\ approvalsRespCh = <<1>>
    /\ botMessagesChannel = <<2>>

====
